---- MODULE Spec2Model ----
(***************************************************************************)
(* Model of Training.training (src/idc_with_vae_and_dcgan/training.py):    *)
(* the epoch / phase / batch loops of the VAE + DCGAN training run, one    *)
(* action per statement group of the loop body.  Tensors are abstracted to *)
(* what the bookkeeping observes: a parameter version per module, the set  *)
(* of iterations whose backward passes a gradient buffer holds, the loss   *)
(* values of a batch, the files of the two output directories.             *)
(***************************************************************************)
EXTENDS Integers, Sequences, FiniteSets, TLC

\* ---------------------------------------------------------------- bounds
MaxRecords == 5
MaxEpochs == 2

\* ------------------------------------------------------ program constants
latent_dims == 64
total_latent_dims == 448
SampleEvery == 500

\* ------------------------------------------------------------ input sets
\* Batch sizes a run is configured with (the repository's own value is 16).
BatchSizes == {2, 16}
\* Width of the dI feature vector of the records (384 is the matching one).
DiDims == {383, 384, 385}
\* Loss values a batch can yield: real-branch, fake-branch, generator.
BatchData == {[real |-> 1, fake |-> 2, gen |-> 3], [real |-> 2, fake |-> 2, gen |-> 1]}
NoiseVals == {"z1", "z2"}
Modes == {"train", "val"}
Modules == {"dis", "gen", "vae"}

VARIABLES
    n_epochs, n_records, batch_size, di_dim,
    pc, err, epoch, mode, b_idx, i, b_size, data,
    iters, train_iters, val_iters, acc,
    gen_losses, dis_losses, val_gen_losses, val_dis_losses,
    img_list, val_img_list, fixed_noise, dirs,
    params, grad, label, fake,
    dis_error_real, dis_error_fake, dis_error, gen_error,
    trace, opt_read, d_in_fake, d_in_gen, phase_params, gen_calls,
    noise_draws, batch_log,
    grad_enabled, viz, crit_seen

config == <<n_epochs, n_records, batch_size, di_dim>>
loopv == <<epoch, mode, b_idx, i, b_size, data>>
counters == <<iters, train_iters, val_iters>>
hists == <<gen_losses, dis_losses, val_gen_losses, val_dis_losses>>
grids == <<img_list, val_img_list>>
errs == <<dis_error_real, dis_error_fake, dis_error, gen_error>>
nets == <<params, grad, label, fake>>
ghost == <<opt_read, d_in_fake, d_in_gen, phase_params, gen_calls, noise_draws, batch_log>>
vars == <<config, pc, err, loopv, counters, acc, hists, grids, fixed_noise, dirs,
          nets, errs, trace, ghost, grad_enabled, viz, crit_seen>>

\* ------------------------------------------------------------ pure helpers
\* Data.dataset_prep: 80/20 split, int(0.8 * len(dataset)).
TrainSize(n) == (4 * n) \div 5
ValSize(n) == n - TrainSize(n)
SplitSize(m, n) == IF m = "train" THEN TrainSize(n) ELSE ValSize(n)
\* len(DataLoader): ceil(size / batch_size), the last batch is kept.
NumBatches(size, bs) == (size + bs - 1) \div bs
\* number of records of batch k of a loader
BatchLen(size, bs, k) == IF (k + 1) * bs <= size THEN bs ELSE size - k * bs

RECURSIVE Gcd(_, _)
Gcd(a, b) == IF b = 0 THEN a ELSE Gcd(b, a % b)
\* Python true division of a running sum by a batch count, kept exact as a
\* reduced fraction; a zero divisor raises ZeroDivisionError.
\* variant: an empty split averages to zero instead of raising
DivideGuarded(s, n) ==
    IF n = 0 THEN [raised |-> FALSE, q |-> <<0, 1>>]
    ELSE LET g == Gcd(s, n) IN [raised |-> FALSE, q |-> <<s \div g, n \div g>>]
Divide(s, n) ==
    IF n = 0 THEN [raised |-> TRUE, q |-> <<0, 0>>]
    ELSE LET g == Gcd(s, n) IN [raised |-> FALSE, q |-> <<s \div g, n \div g>>]

\* f"{idx:03d}": decimal digits, zero-padded to at least three.
RECURSIVE Digits(_)
Digits(n) == IF n < 10 THEN <<n>> ELSE Append(Digits(n \div 10), n % 10)
Fmt03(n) ==
    LET d == Digits(n)
    IN IF Len(d) = 1 THEN <<0, 0>> \o d ELSE IF Len(d) = 2 THEN <<0>> \o d ELSE d
\* the two files written for record j of the batch
\* variant: the split counter is not scaled by the batch size
ExportFilesNoStride(cnt, bs, n) ==
    UNION {{<<Fmt03(cnt + j), "gen">>, <<Fmt03(cnt + j), "real">>} : j \in 0..(n - 1)}
ExportFiles(cnt, bs, n) ==
    UNION {{<<Fmt03(cnt * bs + j), "gen">>, <<Fmt03(cnt * bs + j), "real">>} : j \in 0..(n - 1)}

\* torch.cat(..., dim=1): the widths add, whatever they are.
Cat(w1, w2) == w1 + w2
\* torch.reshape(x, (b_size, total, 1, 1)) of a (b_size, w) tensor: raises
\* unless the element counts agree.
\* variant: a view that takes the first `total` columns without complaint
ReshapeTruncate(b, w, total) == [raised |-> FALSE, width |-> total]
Reshape(b, w, total) ==
    IF b * w = b * total THEN [raised |-> FALSE, width |-> total]
    ELSE [raised |-> TRUE, width |-> 0]

\* `epoch == self.n_epochs - 1`
\* variant: `<=` for `==`
UpToFinalEpoch(e, n) == e <= n - 1
IsFinalEpoch(e, n) == e = n - 1
\* the periodic-sampling condition of lines 293 and 312
SampleCond(it, e, n, idx, nb) == (it % SampleEvery = 0) \/ (IsFinalEpoch(e, n) /\ idx = nb - 1)
\* make_grid(generator(fixed_noise)): the latent and the generator it used
\* variant: a latent drawn anew at every checkpoint
GridFromFresh(noise, gver) == [latent |-> "fresh", gen |-> gver]
GridFrom(noise, gver) == [latent |-> noise, gen |-> gver]
\* accumulators at the top of an epoch (line 186)
ZeroAcc ==
    [gen_loss |-> 0, dis_loss |-> 0, val_gen_loss |-> 0, val_dis_loss |-> 0,
     train_batches |-> 0, val_batches |-> 0]
\* variant: the reset is hoisted out of the epoch loop
KeepAccumulators(a) == a
ResetAccumulators(a) == ZeroAcc

\* variant: the optimizer blocks run in both phases
SuccNoModeCheck(p, m) ==
    CASE p = "dis_zero" -> "dis_real"
      [] p = "dis_real" -> "latent"
      [] p = "latent" -> "gen_fwd"
      [] p = "gen_fwd" -> "dis_fake"
      [] p = "dis_fake" -> "dis_step"
      [] p = "dis_step" -> "gen_zero"
      [] p = "gen_zero" -> "gen_loss"
      [] p = "gen_loss" -> "gen_backward"
      [] p = "gen_backward" -> "gen_step"
      [] p = "gen_step" -> "vae_step"
      [] p = "vae_step" -> "book"
      [] p = "book" -> "sample"
      [] p = "sample" -> "iter_inc"
      [] OTHER -> "fetch"
\* variant: the discriminator is updated after the generator's forward pass
SuccDisStepLate(p, m) ==
    CASE p = "dis_zero" -> "dis_real"
      [] p = "dis_real" -> "latent"
      [] p = "latent" -> "gen_fwd"
      [] p = "gen_fwd" -> "dis_fake"
      [] p = "dis_fake" -> "gen_zero"
      [] p = "gen_zero" -> "gen_loss"
      [] p = "gen_loss" -> IF m = "train" THEN "dis_step" ELSE "book"
      [] p = "dis_step" -> "gen_backward"
      [] p = "gen_backward" -> "gen_step"
      [] p = "gen_step" -> "vae_step"
      [] p = "vae_step" -> "book"
      [] p = "book" -> "sample"
      [] p = "sample" -> "iter_inc"
      [] OTHER -> "fetch"
\* variant: the encoder is updated before total_error.backward()
SuccVaeStepFirst(p, m) ==
    CASE p = "dis_zero" -> "dis_real"
      [] p = "dis_real" -> "latent"
      [] p = "latent" -> "gen_fwd"
      [] p = "gen_fwd" -> "dis_fake"
      [] p = "dis_fake" -> IF m = "train" THEN "dis_step" ELSE "gen_zero"
      [] p = "dis_step" -> "gen_zero"
      [] p = "gen_zero" -> "gen_loss"
      [] p = "gen_loss" -> IF m = "train" THEN "vae_step" ELSE "book"
      [] p = "vae_step" -> "gen_backward"
      [] p = "gen_backward" -> "gen_step"
      [] p = "gen_step" -> "book"
      [] p = "book" -> "sample"
      [] p = "sample" -> "iter_inc"
      [] OTHER -> "fetch"
\* variant: `iters += 1` sits inside the train branch
SuccNoValIter(p, m) ==
    CASE p = "dis_zero" -> "dis_real"
      [] p = "dis_real" -> "latent"
      [] p = "latent" -> "gen_fwd"
      [] p = "gen_fwd" -> "dis_fake"
      [] p = "dis_fake" -> IF m = "train" THEN "dis_step" ELSE "gen_zero"
      [] p = "dis_step" -> "gen_zero"
      [] p = "gen_zero" -> "gen_loss"
      [] p = "gen_loss" -> IF m = "train" THEN "gen_backward" ELSE "book"
      [] p = "gen_backward" -> "gen_step"
      [] p = "gen_step" -> "vae_step"
      [] p = "vae_step" -> "book"
      [] p = "book" -> "sample"
      [] p = "sample" -> IF m = "train" THEN "iter_inc" ELSE "fetch"
      [] OTHER -> "fetch"
\* Statement order of the loop body; the `if mode == "train"` blocks of
\* lines 239-241 and 261-268 are skipped in the validation phase.
Succ(p, m) ==
    CASE p = "dis_zero" -> "dis_real"
      [] p = "dis_real" -> "latent"
      [] p = "latent" -> "gen_fwd"
      [] p = "gen_fwd" -> "dis_fake"
      [] p = "dis_fake" -> IF m = "train" THEN "dis_step" ELSE "gen_zero"
      [] p = "dis_step" -> "gen_zero"
      [] p = "gen_zero" -> "gen_loss"
      [] p = "gen_loss" -> IF m = "train" THEN "gen_backward" ELSE "book"
      [] p = "gen_backward" -> "gen_step"
      [] p = "gen_step" -> "vae_step"
      [] p = "vae_step" -> "book"
      [] p = "book" -> "sample"
      [] p = "sample" -> "iter_inc"
      [] OTHER -> "fetch"

\* shutil.rmtree when the path exists, then os.makedirs (lines 178-181)
Recreate(d) == [exists |-> TRUE, files |-> {}]

\* self.labels (line 109)
labels(k) == IF k = "real" THEN 1 ELSE 0
\* shape of the label tensor of a batch of b records (line 205)
\* variant: the configured batch size, whatever the batch holds
LabelShapeConfigured(b, bs) == bs
LabelShape(b, bs) == b
\* torch.full((n,), v)
Full(n, v) == [k \in 1..n |-> v]
\* tensor.fill_(v): every position overwritten, the length kept
\* variant: the fill is lost, the tensor keeps its old values
FillNoop(t, v) == t
Fill(t, v) == [k \in 1..Len(t) |-> v]
\* modules whose parameters lie on the autograd graph of a loss: D(real)
\* and D(fake.detach()) end in the discriminator, total_error runs back
\* through the discriminator, the generator and the encoder
\* variant: the fake batch is passed to the discriminator without detach()
GraphOfAttached(loss) == IF loss = "real" THEN {"dis"} ELSE Modules
GraphOf(loss) == IF loss = "total" THEN Modules ELSE {"dis"}
\* loss.backward(): the iteration's gradient is added to each buffer on the graph
BackwardInto(g, mods, it) == [m \in Modules |-> IF m \in mods THEN g[m] \cup {it} ELSE g[m]]
\* `torch.no_grad()` as a bare expression statement (line 193): the context
\* manager is built and dropped, never entered
NoGradCall(g) == g
\* the six sequences of the return statement (line 327) are bound by
\* position to these attributes (lines 335-336)
AttrNames == {"gen_grid_imgs", "val_gen_grid_imgs", "gen_losses", "val_dis_losses",
              "val_gen_losses", "dis_losses"}
AttrOrder == <<"gen_grid_imgs", "val_gen_grid_imgs", "gen_losses", "val_dis_losses",
               "val_gen_losses", "dis_losses">>
Unpack(result) == [a \in AttrNames |-> result[CHOOSE k \in 1..6 : AttrOrder[k] = a]]
\* L_real + L_fake (line 238)
\* variant: the mean of the two branches
DisErrorMean(r, f) == (r + f) \div 2
DisError(r, f) == r + f

\* no exception raised so far
NoError == [kind |-> "none", at |-> "none"]

\* directory contents before the run: missing, empty, or holding old files
OldDirs ==
    {[exists |-> FALSE, files |-> {}], [exists |-> TRUE, files |-> {}],
     [exists |-> TRUE, files |-> {<<Fmt03(7), "gen">>}]}

Init ==
    /\ n_epochs \in 0..MaxEpochs
    /\ n_records \in 0..MaxRecords
    /\ batch_size \in BatchSizes
    /\ di_dim \in DiDims
    /\ pc = "start"
    /\ err = NoError
    /\ epoch = 0
    /\ mode = "train"
    /\ b_idx = 0
    /\ i = 0
    /\ b_size = 0
    /\ data = CHOOSE d \in BatchData : TRUE
    /\ iters = 0 /\ train_iters = 0 /\ val_iters = 0
    /\ acc = ZeroAcc
    /\ gen_losses = <<>> /\ dis_losses = <<>>
    /\ val_gen_losses = <<>> /\ val_dis_losses = <<>>
    /\ img_list = <<>> /\ val_img_list = <<>>
    /\ fixed_noise = "unset"
    /\ dirs \in [Modes -> OldDirs]
    /\ params = [m \in Modules |-> 0]
    /\ grad = [m \in Modules |-> {}]
    /\ label = <<>>
    /\ fake = [src |-> -1, from |-> "none"]
    /\ dis_error_real = 0 /\ dis_error_fake = 0 /\ dis_error = 0 /\ gen_error = 0
    /\ trace = <<>>
    /\ opt_read = [m \in Modules |-> [at |-> -1, from |-> {}]]
    /\ d_in_fake = [fake |-> fake, dver |-> -1]
    /\ d_in_gen = [fake |-> fake, dver |-> -1]
    /\ phase_params = params
    /\ gen_calls = 0
    /\ noise_draws = 0
    /\ batch_log = <<>>
    /\ grad_enabled = TRUE
    /\ viz = [a \in AttrNames |-> <<>>]
    /\ crit_seen = [k \in {"real", "fake", "gen"} |-> <<>>]

\* ---------------------------------------------------------------- actions
\* lines 148-183: modules, fixed_noise, optimizers, loaders, empty
\* histories, zero counters, both output directories removed and recreated.
Setup ==
    /\ pc = "start"
    /\ \E z \in NoiseVals : fixed_noise' = z
    /\ noise_draws' = noise_draws + 1
    /\ dirs' = [m \in Modes |-> Recreate(dirs[m])]
    /\ pc' = "epoch"
    /\ UNCHANGED <<config, grad_enabled, viz, crit_seen, err, loopv, counters, acc, hists, grids, nets, errs, trace,
                   opt_read, d_in_fake, d_in_gen, phase_params, gen_calls, batch_log>>

\* lines 185-188: `for epoch in range(n_epochs)`, the accumulator reset and
\* the entry into the train phase; line 327 when the range is exhausted.
EpochHead ==
    /\ pc = "epoch"
    /\ IF epoch < n_epochs
       THEN /\ acc' = ResetAccumulators(acc)
            /\ mode' = "train"
            /\ b_idx' = 0
            /\ phase_params' = params
            /\ trace' = <<>>
            /\ pc' = "fetch"
       ELSE /\ pc' = "done"
            /\ UNCHANGED <<acc, mode, b_idx, phase_params, trace>>
    /\ UNCHANGED <<config, grad_enabled, viz, crit_seen, err, epoch, i, b_size, data, counters, hists, grids, fixed_noise,
                   dirs, nets, errs, opt_read, d_in_fake, d_in_gen, gen_calls,
                   noise_draws, batch_log>>

\* line 195: `for i, data in enumerate(loader, 0)`.
Fetch ==
    /\ pc = "fetch"
    /\ LET size == SplitSize(mode, n_records)
       IN IF b_idx < NumBatches(size, batch_size)
          THEN /\ i' = b_idx
               /\ b_idx' = b_idx + 1
               /\ \E d \in BatchData : data' = d
               /\ b_size' = BatchLen(size, batch_size, b_idx)
               /\ trace' = <<>>
               /\ pc' = "dis_zero"
          ELSE /\ pc' = "append"
               /\ UNCHANGED <<i, b_idx, data, b_size, trace>>
    /\ UNCHANGED <<config, grad_enabled, viz, crit_seen, err, epoch, mode, counters, acc, hists, grids, fixed_noise, dirs,
                   nets, errs, ghost>>

\* line 201: discriminator.zero_grad()
DisZeroGrad ==
    /\ pc = "dis_zero"
    /\ grad' = [grad EXCEPT !["dis"] = {}]
    /\ trace' = Append(trace, "dis_zero_grad")
    /\ pc' = Succ(pc, mode)
    /\ UNCHANGED <<config, grad_enabled, viz, crit_seen, err, loopv, counters, acc, hists, grids, fixed_noise, dirs,
                   params, label, fake, errs, ghost>>

\* lines 203-213: real labels, D(real), L_real, its backward pass when training.
DisReal ==
    /\ pc = "dis_real"
    /\ label' = Full(LabelShape(b_size, batch_size), labels("real"))
    /\ crit_seen' = [crit_seen EXCEPT !["real"] = label']
    /\ dis_error_real' = data.real
    /\ IF mode = "train"
       THEN /\ grad' = BackwardInto(grad, GraphOf("real"), iters)
            /\ trace' = Append(trace, "dis_real_backward")
       ELSE UNCHANGED <<grad, trace>>
    /\ pc' = Succ(pc, mode)
    /\ UNCHANGED <<config, grad_enabled, viz, err, loopv, counters, acc, hists, grids, fixed_noise, dirs,
                   params, fake, dis_error_fake, dis_error, gen_error, ghost>>

\* lines 217-223: encoder forward, normalize, cat with dI, reshape to
\* (b_size, total_latent_dims, 1, 1).
Latent ==
    /\ pc = "latent"
    /\ LET r == Reshape(b_size, Cat(latent_dims, di_dim), total_latent_dims)
       IN IF r.raised
          THEN /\ pc' = "error"
               /\ err' = [kind |-> "ShapeError", at |-> pc]
               /\ UNCHANGED trace
          ELSE /\ pc' = Succ(pc, mode)
               /\ trace' = Append(trace, "latent")
               /\ UNCHANGED err
    /\ UNCHANGED <<config, grad_enabled, viz, crit_seen, loopv, counters, acc, hists, grids, fixed_noise, dirs,
                   nets, errs, ghost>>

\* line 226: fake = generator(vae_latent_embed_vector)
GenFwd ==
    /\ pc = "gen_fwd"
    /\ fake' = [src |-> iters, from |-> "latent"]
    /\ gen_calls' = gen_calls + 1
    /\ trace' = Append(trace, "gen_fwd")
    /\ pc' = Succ(pc, mode)
    /\ UNCHANGED <<config, grad_enabled, viz, crit_seen, err, loopv, counters, acc, hists, grids, fixed_noise, dirs,
                   params, grad, label, errs, opt_read, d_in_fake, d_in_gen, phase_params,
                   noise_draws, batch_log>>

\* lines 228-238: fake labels, D(fake.detach()), L_fake, its backward pass
\* when training, dis_error = L_real + L_fake.
DisFake ==
    /\ pc = "dis_fake"
    /\ label' = Fill(label, labels("fake"))
    /\ crit_seen' = [crit_seen EXCEPT !["fake"] = label']
    /\ d_in_fake' = [fake |-> fake, dver |-> params["dis"]]
    /\ dis_error_fake' = data.fake
    /\ dis_error' = DisError(dis_error_real, data.fake)
    /\ IF mode = "train"
       THEN /\ grad' = BackwardInto(grad, GraphOf("fake"), iters)
            /\ trace' = Append(trace, "dis_fake_backward")
       ELSE UNCHANGED <<grad, trace>>
    /\ pc' = Succ(pc, mode)
    /\ UNCHANGED <<config, grad_enabled, viz, err, loopv, counters, acc, hists, grids, fixed_noise, dirs,
                   params, fake, dis_error_real, gen_error, opt_read, d_in_gen,
                   phase_params, gen_calls, noise_draws, batch_log>>

\* line 241: dis_optimizer.step()
DisStep ==
    /\ pc = "dis_step"
    /\ params' = [params EXCEPT !["dis"] = @ + 1]
    /\ opt_read' = [opt_read EXCEPT !["dis"] = [at |-> iters, from |-> grad["dis"]]]
    /\ trace' = Append(trace, "dis_step")
    /\ pc' = Succ(pc, mode)
    /\ UNCHANGED <<config, grad_enabled, viz, crit_seen, err, loopv, counters, acc, hists, grids, fixed_noise, dirs,
                   grad, label, fake, errs, d_in_fake, d_in_gen, phase_params, gen_calls,
                   noise_draws, batch_log>>

\* line 246: generator.zero_grad()
GenZeroGrad ==
    /\ pc = "gen_zero"
    /\ grad' = [grad EXCEPT !["gen"] = {}]
    /\ trace' = Append(trace, "gen_zero_grad")
    /\ pc' = Succ(pc, mode)
    /\ UNCHANGED <<config, grad_enabled, viz, crit_seen, err, loopv, counters, acc, hists, grids, fixed_noise, dirs,
                   params, label, fake, errs, ghost>>

\* lines 247-260: real labels, D(fake), L_gen, L_vae, total_error.
GenLoss ==
    /\ pc = "gen_loss"
    /\ label' = Fill(label, labels("real"))
    /\ crit_seen' = [crit_seen EXCEPT !["gen"] = label']
    /\ d_in_gen' = [fake |-> fake, dver |-> params["dis"]]
    /\ gen_error' = data.gen
    /\ trace' = Append(trace, "dis_gen_fwd")
    /\ pc' = Succ(pc, mode)
    /\ UNCHANGED <<config, grad_enabled, viz, err, loopv, counters, acc, hists, grids, fixed_noise, dirs,
                   params, grad, fake, dis_error_real, dis_error_fake, dis_error,
                   opt_read, d_in_fake, phase_params, gen_calls, noise_draws, batch_log>>

\* line 263: total_error.backward(): the graph of total_error runs through
\* the discriminator, the generator and the encoder.
GenBackward ==
    /\ pc = "gen_backward"
    /\ grad' = BackwardInto(grad, GraphOf("total"), iters)
    /\ trace' = Append(trace, "total_backward")
    /\ pc' = Succ(pc, mode)
    /\ UNCHANGED <<config, grad_enabled, viz, crit_seen, err, loopv, counters, acc, hists, grids, fixed_noise, dirs,
                   params, label, fake, errs, ghost>>

\* line 265: gen_optimizer.step()
GenStep ==
    /\ pc = "gen_step"
    /\ params' = [params EXCEPT !["gen"] = @ + 1]
    /\ opt_read' = [opt_read EXCEPT !["gen"] = [at |-> iters, from |-> grad["gen"]]]
    /\ trace' = Append(trace, "gen_step")
    /\ pc' = Succ(pc, mode)
    /\ UNCHANGED <<config, grad_enabled, viz, crit_seen, err, loopv, counters, acc, hists, grids, fixed_noise, dirs,
                   grad, label, fake, errs, d_in_fake, d_in_gen, phase_params, gen_calls,
                   noise_draws, batch_log>>

\* line 268: vae_optimizer.step()
VaeStep ==
    /\ pc = "vae_step"
    /\ params' = [params EXCEPT !["vae"] = @ + 1]
    /\ opt_read' = [opt_read EXCEPT !["vae"] = [at |-> iters, from |-> grad["vae"]]]
    /\ trace' = Append(trace, "vae_step")
    /\ pc' = Succ(pc, mode)
    /\ UNCHANGED <<config, grad_enabled, viz, crit_seen, err, loopv, counters, acc, hists, grids, fixed_noise, dirs,
                   grad, label, fake, errs, d_in_fake, d_in_gen, phase_params, gen_calls,
                   noise_draws, batch_log>>

\* lines 278-290 (train) and 298-309 (val): running sums and batch count of
\* the split; in the final epoch one gen/real file pair per image of the
\* batch, written by a loop that reuses the name `i`, and the split's
\* export counter.
Book ==
    /\ pc = "book"
    /\ acc' = IF mode = "train"
              THEN [acc EXCEPT !.gen_loss = @ + gen_error, !.dis_loss = @ + dis_error,
                               !.train_batches = @ + 1]
              ELSE [acc EXCEPT !.val_gen_loss = @ + gen_error, !.val_dis_loss = @ + dis_error,
                               !.val_batches = @ + 1]
    /\ IF IsFinalEpoch(epoch, n_epochs)
       THEN /\ dirs' = [dirs EXCEPT ![mode].files =
                           @ \cup ExportFiles(IF mode = "train" THEN train_iters ELSE val_iters,
                                              batch_size, b_size)]
            /\ i' = b_size - 1
            /\ train_iters' = IF mode = "train" THEN train_iters + 1 ELSE train_iters
            /\ val_iters' = IF mode = "val" THEN val_iters + 1 ELSE val_iters
       ELSE UNCHANGED <<dirs, i, train_iters, val_iters>>
    /\ batch_log' = Append(batch_log, [epoch |-> epoch, mode |-> mode, gen |-> gen_error,
                                       dis |-> dis_error, real |-> dis_error_real,
                                       fake |-> dis_error_fake, batch |-> b_idx - 1])
    /\ pc' = Succ(pc, mode)
    /\ UNCHANGED <<config, grad_enabled, viz, crit_seen, err, epoch, mode, b_idx, b_size, data, iters, hists, grids,
                   fixed_noise, nets, errs, trace, opt_read, d_in_fake, d_in_gen,
                   phase_params, gen_calls, noise_draws>>

\* lines 293-296 (train, against len(train_dataloader)) and 312-314 (val,
\* against len(loader)): the grid of generator(fixed_noise).
Sample ==
    /\ pc = "sample"
    /\ LET nb == IF mode = "train" THEN NumBatches(TrainSize(n_records), batch_size)
                 ELSE NumBatches(SplitSize(mode, n_records), batch_size)
       IN IF SampleCond(iters, epoch, n_epochs, i, nb)
          THEN /\ fake' = [src |-> iters, from |-> "fixed_noise"]
               /\ gen_calls' = gen_calls + 1
               /\ img_list' = IF mode = "train"
                              THEN Append(img_list, GridFrom(fixed_noise, params["gen"]))
                              ELSE img_list
               /\ val_img_list' = IF mode = "val"
                                  THEN Append(val_img_list, GridFrom(fixed_noise, params["gen"]))
                                  ELSE val_img_list
               /\ trace' = Append(trace, "grid")
          ELSE UNCHANGED <<fake, gen_calls, img_list, val_img_list, trace>>
    /\ pc' = Succ(pc, mode)
    /\ UNCHANGED <<config, grad_enabled, viz, crit_seen, err, loopv, counters, acc, hists, fixed_noise, dirs,
                   params, grad, label, errs, opt_read, d_in_fake, d_in_gen, phase_params,
                   noise_draws, batch_log>>

\* line 316: iters += 1
IterInc ==
    /\ pc = "iter_inc"
    /\ iters' = iters + 1
    /\ pc' = Succ(pc, mode)
    /\ UNCHANGED <<config, grad_enabled, viz, crit_seen, err, loopv, train_iters, val_iters, acc, hists, grids,
                   fixed_noise, dirs, nets, errs, trace, ghost>>

\* lines 318-325: the split's two averages are appended; then the
\* validation phase (lines 188-193) or the next epoch follows.
AppendLoss ==
    /\ pc = "append"
    /\ LET n == IF mode = "train" THEN acc.train_batches ELSE acc.val_batches
           g == Divide(IF mode = "train" THEN acc.gen_loss ELSE acc.val_gen_loss, n)
           d == Divide(IF mode = "train" THEN acc.dis_loss ELSE acc.val_dis_loss, n)
       IN IF g.raised
          THEN /\ pc' = "error"
               /\ err' = [kind |-> "ZeroDivisionError", at |-> pc]
               /\ UNCHANGED <<hists, mode, b_idx, epoch, phase_params, trace, grad_enabled>>
          ELSE /\ gen_losses' = IF mode = "train" THEN Append(gen_losses, g.q) ELSE gen_losses
               /\ dis_losses' = IF mode = "train" THEN Append(dis_losses, d.q) ELSE dis_losses
               /\ val_gen_losses' = IF mode = "val" THEN Append(val_gen_losses, g.q)
                                    ELSE val_gen_losses
               /\ val_dis_losses' = IF mode = "val" THEN Append(val_dis_losses, d.q)
                                    ELSE val_dis_losses
               /\ IF mode = "train"
                  THEN /\ mode' = "val"
                       /\ b_idx' = 0
                       /\ grad_enabled' = NoGradCall(grad_enabled)
                       /\ phase_params' = params
                       /\ trace' = <<>>
                       /\ pc' = "fetch"
                       /\ UNCHANGED epoch
                  ELSE /\ epoch' = epoch + 1
                       /\ pc' = "epoch"
                       /\ UNCHANGED <<mode, b_idx, phase_params, trace, grad_enabled>>
               /\ UNCHANGED err
    /\ UNCHANGED <<config, viz, crit_seen, i, b_size, data, counters, acc, grids, fixed_noise, dirs, nets,
                   errs, opt_read, d_in_fake, d_in_gen, gen_calls, noise_draws,
                   batch_log>>

\* lines 327 and 335-336: training() returns its six sequences and
\* VisualizeModel.__init__ unpacks them into its attributes.
VisualizeInit ==
    /\ pc = "done"
    /\ viz' = Unpack(<<img_list, val_img_list, gen_losses, dis_losses, val_gen_losses,
                       val_dis_losses>>)
    /\ pc' = "bound"
    /\ UNCHANGED <<config, grad_enabled, crit_seen, err, loopv, counters, acc, hists, grids,
                   fixed_noise, dirs, nets, errs, trace, ghost>>

Next ==
    \/ Setup \/ EpochHead \/ Fetch
    \/ DisZeroGrad \/ DisReal \/ Latent \/ GenFwd \/ DisFake \/ DisStep
    \/ GenZeroGrad \/ GenLoss \/ GenBackward \/ GenStep \/ VaeStep
    \/ Book \/ Sample \/ IterInc \/ AppendLoss \/ VisualizeInit

Spec == Init /\ [][Next]_vars

\* The loop is one synchronous thread: a statement that can run does run.
FairSpec == Spec /\ WF_vars(Next)

\* ------------------------------------------------------------- properties
\* position of the first occurrence of event e in a batch trace, 0 if none
Idx(t, e) == IF \E k \in 1..Len(t) : t[k] = e
             THEN CHOOSE k \in 1..Len(t) : t[k] = e /\ \A j \in 1..(k - 1) : t[j] # e
             ELSE 0
UpdateEvents == {"dis_real_backward", "dis_fake_backward", "total_backward",
                 "dis_step", "gen_step", "vae_step"}
Empty(m) == NumBatches(SplitSize(m, n_records), batch_size) = 0
LossHistory(m, k) ==
    IF m = "train" THEN (IF k = "gen" THEN gen_losses ELSE dis_losses)
    ELSE (IF k = "gen" THEN val_gen_losses ELSE val_dis_losses)
RECURSIVE LogSum(_, _, _, _)
LogSum(lg, e, m, k) ==
    IF lg = <<>> THEN 0
    ELSE (IF Head(lg).epoch = e /\ Head(lg).mode = m
          THEN (IF k = "gen" THEN Head(lg).gen ELSE Head(lg).dis) ELSE 0)
         + LogSum(Tail(lg), e, m, k)
LogCount(lg, e, m) == Cardinality({j \in 1..Len(lg) : lg[j].epoch = e /\ lg[j].mode = m})

\* C1: during a validation phase no backward pass and no optimizer step is
\* executed, and the parameters of the discriminator, the generator and the
\* encoder stay what they were when the phase began.
C1_ValidationLeavesParameters ==
    mode = "val" =>
        /\ params = phase_params
        /\ \A k \in 1..Len(trace) : trace[k] \notin UpdateEvents
C1_Witness ==
    /\ pc = "append" /\ mode = "val" /\ acc.val_batches > 0
    /\ params["dis"] > 0 /\ params["gen"] > 0 /\ params["vae"] > 0

\* C2: every optimizer step reads a gradient buffer that holds contributions
\* of the current iteration's backward passes only.
C2_StepsReadCurrentGradients ==
    \A m \in Modules : opt_read[m].from \subseteq {opt_read[m].at}

\* C3: in a train batch the discriminator's optimizer step precedes the
\* discriminator forward pass on the attached fake batch, which is the fake
\* batch the fake-branch loss saw detached.
C3_DisStepBeforeGenForward ==
    (mode = "train" /\ Idx(trace, "dis_gen_fwd") > 0) =>
        /\ Idx(trace, "dis_step") > 0
        /\ Idx(trace, "dis_step") < Idx(trace, "dis_gen_fwd")
        /\ d_in_gen.dver = d_in_fake.dver + 1
        /\ d_in_gen.fake = d_in_fake.fake
        /\ d_in_gen.fake.from = "latent"
C3_Witness ==
    /\ mode = "train" /\ pc = "gen_backward" /\ iters > 0
    /\ d_in_gen.fake.src = iters

\* C4: when the final batch of a split in the final epoch has been
\* processed, a grid has been appended to that split's grid history.
C4_FinalBatchSampled ==
    (pc = "iter_inc" /\ epoch = n_epochs - 1
        /\ b_idx = NumBatches(SplitSize(mode, n_records), batch_size)) =>
        Idx(trace, "grid") > 0

\* C5: each loss history gets one entry per epoch, and entry e is the sum of
\* the split's per-batch losses of epoch e over the number of its batches
\* in epoch e; after the run each history has n_epochs entries.
C5_EpochAverages ==
    \A m \in Modes, k \in {"gen", "dis"} :
        LET h == LossHistory(m, k)
        IN /\ (pc = "done" => Len(h) = n_epochs)
           /\ \A e \in 1..Len(h) :
                /\ h[e][2] > 0
                /\ LogCount(batch_log, e - 1, m) > 0
                /\ h[e][1] * LogCount(batch_log, e - 1, m) = LogSum(batch_log, e - 1, m, k) * h[e][2]
C5_Witness ==
    /\ pc = "done" /\ n_epochs = 2 /\ acc.train_batches = 2
    /\ gen_losses[1] # gen_losses[2] /\ val_dis_losses[1] # val_dis_losses[2]
    /\ gen_losses[2] # val_gen_losses[2]

\* C6: from the moment the directories are recreated until the final epoch
\* begins, both output directories exist and hold no file.
C6_DirsEmptyBeforeFinalEpoch ==
    (pc # "start" /\ (epoch < n_epochs - 1 \/ (epoch = n_epochs - 1 /\ pc = "epoch"))) =>
        \A m \in Modes : dirs[m].exists /\ dirs[m].files = {}
C6_Witness ==
    /\ pc = "append" /\ mode = "val" /\ epoch = 0 /\ n_epochs = 2
    /\ acc.train_batches > 0 /\ acc.val_batches > 0

\* one draw of the latent once the run has started; all grids come from it
LatentDrawnOnce ==
    /\ noise_draws = (IF pc = "start" THEN 0 ELSE 1)
    /\ (pc # "start" => fixed_noise \in NoiseVals)
    /\ \A k \in 1..Len(img_list) : img_list[k].latent = fixed_noise
    /\ \A k \in 1..Len(val_img_list) : val_img_list[k].latent = fixed_noise
\* C7: the evaluation latent is drawn once, before the first epoch, is
\* never assigned again, and every grid of either history was generated
\* from it.
C7_FixedLatent ==
    [](LatentDrawnOnce) /\ [][pc # "start" => fixed_noise' = fixed_noise]_vars
C7_Witness ==
    Len(img_list) >= 2 /\ Len(val_img_list) >= 1 /\ img_list[1].gen # img_list[2].gen

\* C8: in a train batch total_error.backward() comes first, the generator's
\* optimizer step second, the encoder's third; each of the two steps reads a
\* gradient that holds the current iteration's backward pass.
C8_BackwardGenStepVaeStep ==
    /\ Idx(trace, "gen_step") > 0 =>
          /\ 0 < Idx(trace, "total_backward")
          /\ Idx(trace, "total_backward") < Idx(trace, "gen_step")
          /\ opt_read["gen"].at \in opt_read["gen"].from
    /\ Idx(trace, "vae_step") > 0 =>
          /\ 0 < Idx(trace, "total_backward")
          /\ Idx(trace, "total_backward") < Idx(trace, "vae_step")
          /\ 0 < Idx(trace, "gen_step")
          /\ Idx(trace, "gen_step") < Idx(trace, "vae_step")
          /\ opt_read["vae"].at \in opt_read["vae"].from
    /\ (mode = "train" /\ pc = "book") => Idx(trace, "vae_step") > 0
C8_Witness ==
    mode = "train" /\ pc = "book" /\ iters > 0 /\ opt_read["vae"].at = iters

\* C9: with encoder width + dI width different from total_latent_dims, the
\* first batch raises a shape error in latent construction: no batch gets
\* past that step, the generator is never invoked, no optimizer has stepped,
\* and the run returns only if it never fetched a batch.
Mismatch == latent_dims + di_dim # total_latent_dims
InBatchAfterLatent ==
    {"gen_fwd", "dis_fake", "dis_step", "gen_zero", "gen_loss", "gen_backward",
     "gen_step", "vae_step", "book", "sample", "iter_inc"}
C9_MismatchIsFatal ==
    /\ Mismatch =>
          /\ gen_calls = 0
          /\ \A m \in Modules : params[m] = 0
          /\ pc \notin InBatchAfterLatent
          /\ iters = 0
          /\ (pc = "done" => batch_log = <<>> /\ n_epochs = 0)
    /\ err.kind = "ShapeError" =>
          /\ Mismatch
          /\ err.at = "latent"
          /\ epoch = 0 /\ mode = "train" /\ b_idx = 1 /\ iters = 0
C9_Witness ==
    err.kind = "ShapeError" /\ grad["dis"] = {0} /\ di_dim < 384

RECURSIVE LogBranchSum(_, _, _)
LogBranchSum(lg, e, m) ==
    IF lg = <<>> THEN 0
    ELSE (IF Head(lg).epoch = e /\ Head(lg).mode = m THEN Head(lg).real + Head(lg).fake ELSE 0)
         + LogBranchSum(Tail(lg), e, m)

\* C11: the discriminator loss a batch adds to its split's running sum is
\* L_real + L_fake of that batch, so the running sum is the sum of
\* L_real + L_fake over the split's batches of the epoch so far.
C11_DisLossIsBranchSum ==
    pc = "sample" =>
        /\ dis_error = dis_error_real + dis_error_fake
        /\ batch_log[Len(batch_log)].dis = dis_error_real + dis_error_fake
        /\ (IF mode = "train" THEN acc.dis_loss ELSE acc.val_dis_loss)
              = LogBranchSum(batch_log, epoch, mode)
C11_Witness ==
    /\ pc = "sample" /\ mode = "val" /\ epoch = 1
    /\ dis_error_real = 1 /\ dis_error_fake = 2 /\ acc.val_dis_loss = 3 /\ acc.dis_loss > 3

\* program points of a batch at which the label tensor of the batch exists
LabelLive ==
    {"latent", "gen_fwd", "dis_fake", "dis_step", "gen_zero", "gen_loss", "gen_backward",
     "gen_step", "vae_step", "book", "sample", "iter_inc"}
\* records of the batch in hand: what is left of the split, at most batch_size
RecordsInBatch ==
    LET left == SplitSize(mode, n_records) - (b_idx - 1) * batch_size
    IN IF left < batch_size THEN left ELSE batch_size

\* C12: in every batch of either split, a short final batch included, the
\* label tensor the losses are computed against has one entry per record of
\* the batch.
C12_LabelLengthIsBatchLength ==
    pc \in LabelLive =>
        /\ Len(label) = RecordsInBatch
        /\ Len(crit_seen["real"]) = RecordsInBatch
        /\ (pc \notin {"latent", "gen_fwd", "dis_fake"} => Len(crit_seen["fake"]) = RecordsInBatch)
        /\ (pc \in {"gen_backward", "gen_step", "vae_step", "book", "sample", "iter_inc"}
               => Len(crit_seen["gen"]) = RecordsInBatch)
C12_Witness ==
    /\ pc = "book" /\ b_idx = 2 /\ Len(label) = 1 /\ batch_size = 2 /\ mode = "train"

\* C13: during every validation batch gradient recording is off for the
\* forward passes of the encoder, the generator and the discriminator.
C13_ValidationGradOff ==
    (mode = "val" /\ pc \in ({"dis_zero", "dis_real"} \cup LabelLive)) => ~grad_enabled

\* C14: a batch appends a grid only when the global iteration counter is a
\* multiple of 500 or the batch is the final one of its split in the final
\* epoch, and it appends at most one.
C14_GridOnlyAtCheckpoints ==
    pc = "iter_inc" =>
        /\ Cardinality({k \in 1..Len(trace) : trace[k] = "grid"}) <= 1
        /\ Idx(trace, "grid") > 0 =>
              \/ iters % SampleEvery = 0
              \/ (epoch = n_epochs - 1
                    /\ b_idx = NumBatches(SplitSize(mode, n_records), batch_size))

\* C15: VisualizeModel binds each returned sequence to the attribute of the
\* same meaning: the train and validation grids, the train generator and
\* discriminator histories, the validation generator and discriminator
\* histories.
C15_AttributesMatchResult ==
    pc = "bound" =>
        /\ viz["gen_grid_imgs"] = img_list
        /\ viz["val_gen_grid_imgs"] = val_img_list
        /\ viz["gen_losses"] = gen_losses
        /\ viz["dis_losses"] = dis_losses
        /\ viz["val_gen_losses"] = val_gen_losses
        /\ viz["val_dis_losses"] = val_dis_losses

\* batches of split m booked in the final epoch so far
FinalBooked(m) == LogCount(batch_log, n_epochs - 1, m)
\* records those batches held: full batches, the last one possibly short
FinalRecords(m) ==
    IF FinalBooked(m) * batch_size < SplitSize(m, n_records)
    THEN FinalBooked(m) * batch_size ELSE SplitSize(m, n_records)
\* the gen/real file pairs of export indices 0..n-1
FilePairs(n) == {<<Fmt03(k), kind>> : k \in 0..(n - 1), kind \in {"gen", "real"}}

\* C16: in the final epoch the export index counter * batch_size + j runs
\* through 0..N-1 without repetition: after any number of batches the
\* directory holds exactly one gen/real pair per exported record, 2 files
\* per record written and 2 files per record present, and the split counter
\* equals the number of final-epoch batches of the split; after the run
\* every record of the split has its pair.
C16_ExportIndexIsBijective ==
    pc # "start" =>
        \A m \in Modes :
            /\ dirs[m].files = FilePairs(FinalRecords(m))
            /\ Cardinality(dirs[m].files) = 2 * FinalRecords(m)
            /\ (IF m = "train" THEN train_iters ELSE val_iters) = FinalBooked(m)
            /\ (pc \in {"done", "bound"} /\ n_epochs >= 1) =>
                  /\ FinalRecords(m) = SplitSize(m, n_records)
                  /\ FinalBooked(m) = NumBatches(SplitSize(m, n_records), batch_size)
C16_Witness ==
    /\ pc = "done" /\ n_epochs = 2 /\ batch_size = 2 /\ train_iters = 2 /\ val_iters = 1
    /\ dirs["train"].files = FilePairs(3)

\* what a step taken from the real-step or the fake-step does to the buffers
DisBackwardFrame ==
    pc \in {"dis_real", "dis_fake"} =>
        /\ grad'["gen"] = grad["gen"]
        /\ grad'["vae"] = grad["vae"]
        /\ (mode = "train" => iters \in grad'["dis"])

\* C17: the real-step and the fake-step of a train batch add the
\* iteration's gradient to the discriminator's buffer and leave the
\* generator's and the encoder's buffers as they were.
C17_DisBackwardTouchesOnlyDis == [][DisBackwardFrame]_vars
C17_Witness ==
    /\ mode = "train" /\ pc = "dis_step" /\ iters \in grad["dis"]
    /\ grad["gen"] # {} /\ iters \notin grad["gen"]
    /\ grad["vae"] # {} /\ iters \notin grad["vae"]

\* batches per epoch: the train loader's, then the validation loader's
TrainBatches == NumBatches(TrainSize(n_records), batch_size)
ValBatches == NumBatches(ValSize(n_records), batch_size)
\* the run has returned or aborted
Terminated == pc \in {"bound", "error"}
\* the k-th processed batch is batch b of split m in epoch e, the epochs in
\* order, in each epoch the train batches in order before the validation
\* batches; the global counter counts the processed batches
BatchesInOrder ==
    /\ \A k \in 1..Len(batch_log) :
          LET per == TrainBatches + ValBatches
              e == (k - 1) \div per
              r == (k - 1) % per
          IN /\ batch_log[k].epoch = e
             /\ e < n_epochs
             /\ batch_log[k].mode = (IF r < TrainBatches THEN "train" ELSE "val")
             /\ batch_log[k].batch = (IF r < TrainBatches THEN r ELSE r - TrainBatches)
    /\ iters = (IF pc \in {"sample", "iter_inc"} THEN Len(batch_log) - 1 ELSE Len(batch_log))
    /\ pc \in {"done", "bound"} =>
          /\ epoch = n_epochs
          /\ iters = n_epochs * (TrainBatches + ValBatches)

\* C18: the run ends; a run that returns has gone through exactly n_epochs
\* epochs, in each epoch every train batch once and in order before every
\* validation batch once and in order, the global iteration counter has
\* grown by one per processed batch and ends at
\* n_epochs * (train batches + validation batches).
C18_EpochsPhasesBatches == [](BatchesInOrder) /\ <>(Terminated)
C18_Witness ==
    /\ pc = "bound" /\ n_epochs = 2 /\ batch_size = 2 /\ n_records = 4 /\ iters = 6
    /\ Len(batch_log) = 6

\* every position of tensor t holds v, and t has a position
AllEqual(t, v) == Len(t) > 0 /\ \A k \in 1..Len(t) : t[k] = v

\* C19: in every batch of both splits the label tensor holds 1.0 in every
\* position when L_real is computed, 0.0 in every position when L_fake is
\* computed and 1.0 in every position when L_gen is computed.
C19_LabelValuesPerLoss ==
    /\ pc \in LabelLive => AllEqual(crit_seen["real"], 1)
    /\ pc \in (LabelLive \ {"latent", "gen_fwd", "dis_fake"}) => AllEqual(crit_seen["fake"], 0)
    /\ pc \in {"gen_backward", "gen_step", "vae_step", "book", "sample", "iter_inc"}
          => AllEqual(crit_seen["gen"], 1) /\ AllEqual(label, 1)
    /\ pc \in {"dis_step", "gen_zero", "gen_loss"} => AllEqual(label, 0)
C19_Witness ==
    /\ pc = "book" /\ mode = "val" /\ epoch = 1
    /\ crit_seen["real"] = <<1>> /\ crit_seen["fake"] = <<0>> /\ crit_seen["gen"] = <<1>>

====
